---- MODULE Spec2Model ----
(***************************************************************************)
(* Adoption matching: the compatibility scorer, the match ranker and the   *)
(* orchestration of one adoption inquiry.                                  *)
(*                                                                         *)
(* Python strings are sequences of one-character strings, so that          *)
(* str.lower() and the substring test `b in breed_lower` are computed      *)
(* rather than assumed.  A dict is a function whose DOMAIN is its key set; *)
(* Python's None is the value NoneVal.                                     *)
(***************************************************************************)
EXTENDS Integers, Sequences, FiniteSets, TLC

(***************************************************************************)
(* Bounds of the model.                                                    *)
(***************************************************************************)
\* fields of a scored pair that may be None or absent at the same time
MaxOdd == 1
\* animals in the record store
MaxAnimals == 3
\* top_n values tried by find_matches: 0..MaxTopN
MaxTopN == 3
\* adopters in the record store
MaxAdopters == 1
\* sessions created per run
MaxSessions == 1

(***************************************************************************)
(* Python values.                                                          *)
(***************************************************************************)
NoneVal == <<"None">>

\* the upper-case letters and their lower-case forms
LowerTab == [c \in {"A","B","C","D","E","F","G","H","I","J","K","L","M","N","O","P","Q","R","S","T","U","V","W","X","Y","Z"} |->
    CASE c = "A" -> "a" [] c = "B" -> "b" [] c = "C" -> "c" [] c = "D" -> "d" [] c = "E" -> "e" [] c = "F" -> "f" [] c = "G" -> "g" [] c = "H" -> "h" [] c = "I" -> "i" [] c = "J" -> "j" [] c = "K" -> "k" [] c = "L" -> "l" [] c = "M" -> "m" [] c = "N" -> "n" [] c = "O" -> "o" [] c = "P" -> "p" [] c = "Q" -> "q" [] c = "R" -> "r" [] c = "S" -> "s" [] c = "T" -> "t" [] c = "U" -> "u" [] c = "V" -> "v" [] c = "W" -> "w" [] c = "X" -> "x" [] c = "Y" -> "y" [] c = "Z" -> "z"]

\* str.lower() on one character
LowerChar(c) == IF c \in DOMAIN LowerTab THEN LowerTab[c] ELSE c

\* str.lower()
Lower(s) == [i \in 1..Len(s) |-> LowerChar(s[i])]

\* the Python test `sub in s` on strings
Contains(sub, s) ==
    \E i \in 0..(Len(s) - Len(sub)) :
        \A j \in 1..Len(sub) : s[i + j] = sub[j]

\* dict.get(key, default)
Get(d, key, default) == IF key \in DOMAIN d THEN d[key] ELSE default

\* outcome of a call: a returned value or a raised exception
Ok(v) == [exc |-> "none", val |-> v]
Raise(e) == [exc |-> e, val |-> 0]

\* d.get(key, default).lower(): AttributeError when the value is None
GetLower(d, key, default) ==
    LET v == Get(d, key, default)
    IN  IF v = NoneVal THEN Raise("AttributeError") ELSE Ok(Lower(v))

(***************************************************************************)
(* String literals of the source.                                          *)
(***************************************************************************)
s_empty == << >>
s_yes == <<"y","e","s">>
s_no == <<"n","o">>
s_low == <<"l","o","w">>
s_medium == <<"m","e","d","i","u","m">>
s_high == <<"h","i","g","h">>
s_quiet == <<"q","u","i","e","t">>
s_relaxed == <<"r","e","l","a","x","e","d">>
s_moderate == <<"m","o","d","e","r","a","t","e">>
s_active == <<"a","c","t","i","v","e">>
s_outdoor == <<"o","u","t","d","o","o","r","-","p","e","r","s","o","n">>
s_family == <<"f","a","m","i","l","y","-","f","o","c","u","s","e","d">>
s_busy == <<"b","u","s","y">>
s_beginner == <<"b","e","g","i","n","n","e","r">>
s_experienced == <<"e","x","p","e","r","i","e","n","c","e","d">>
s_house == <<"h","o","u","s","e">>
s_apartment == <<"a","p","a","r","t","m","e","n","t">>
s_large == <<"l","a","r","g","e">>
s_small == <<"s","m","a","l","l">>
s_retriever == <<"r","e","t","r","i","e","v","e","r">>
s_shepherd == <<"s","h","e","p","h","e","r","d">>
s_labrador == <<"l","a","b","r","a","d","o","r">>
s_pitbull == <<"p","i","t"," ","b","u","l","l">>
s_cat == <<"c","a","t">>
s_tabby == <<"t","a","b","b","y">>
s_persian == <<"p","e","r","s","i","a","n">>
s_beagle == <<"b","e","a","g","l","e">>
s_Unknown == <<"U","n","k","n","o","w","n">>

s_None == <<"N","o","n","e">>

(***************************************************************************)
(* CompatibilityScorer                                                     *)
(***************************************************************************)
\* weights that sum to 1.10: lifestyle_match entered as 0.40
InitWeightsSkewed ==
    [k \in {"lifestyle_match", "experience_match", "home_fit",
            "behavioral_fit", "special_needs"} |->
        CASE k = "lifestyle_match" -> 40
          [] k = "experience_match" -> 20
          [] k = "home_fit" -> 20
          [] k = "behavioral_fit" -> 20
          [] k = "special_needs" -> 10]

\* special_needs weighted 0.01 in place of 0.10
InitWeightsLight ==
    [lifestyle_match |-> 30, experience_match |-> 20, home_fit |-> 20,
     behavioral_fit |-> 20, special_needs |-> 1]

\* self.weights, in hundredths (0.30 is 30): every product score * weight of
\* the source is a multiple of 0.5 and exact in binary floating point, so
\* the float sum equals the sum of hundredths computed here
InitWeights ==
    [k \in {"lifestyle_match", "experience_match", "home_fit",
            "behavioral_fit", "special_needs"} |->
        CASE k = "lifestyle_match" -> 30
          [] k = "experience_match" -> 20
          [] k = "home_fit" -> 20
          [] k = "behavioral_fit" -> 20
          [] k = "special_needs" -> 10]

\* insertion order of the scores dict
ScoreKeys == <<"lifestyle_match", "experience_match", "home_fit",
               "behavioral_fit", "special_needs">>

energy_map == [k \in {s_low, s_medium, s_high} |->
                 CASE k = s_low -> 1 [] k = s_medium -> 2 [] k = s_high -> 3]

lifestyle_map ==
    [k \in {s_quiet, s_relaxed, s_moderate, s_active, s_outdoor, s_family, s_busy} |->
        CASE k = s_quiet -> 1 [] k = s_relaxed -> 1 [] k = s_moderate -> 2
          [] k = s_active -> 3 [] k = s_outdoor -> 3 [] k = s_family -> 2
          [] k = s_busy -> 1]

Abs(n) == IF n < 0 THEN -n ELSE n

Max2(a, b) == IF a >= b THEN a ELSE b

\* the table lookups without .lower()
ScoreLifestyleCaseSensitive(animal, adopter) ==
    LET animal_energy == Get(animal, "energy_level", s_medium)
        adopter_lifestyle == Get(adopter, "lifestyle", s_moderate)
    IN  IF animal_energy = NoneVal \/ adopter_lifestyle = NoneVal
        THEN Raise("AttributeError")
        ELSE LET animal_level == Get(energy_map, animal_energy, 2)
                 adopter_level == Get(lifestyle_map, adopter_lifestyle, 2)
                 diff == Abs(animal_level - adopter_level)
             IN  IF diff = 0 THEN Ok(100)
                 ELSE IF diff = 1 THEN Ok(70)
                 ELSE Ok(40)

ScoreLifestyle(animal, adopter) ==
    LET animal_energy == GetLower(animal, "energy_level", s_medium)
        adopter_lifestyle == GetLower(adopter, "lifestyle", s_moderate)
    IN  IF animal_energy.exc # "none" THEN animal_energy
        ELSE IF adopter_lifestyle.exc # "none" THEN adopter_lifestyle
        ELSE LET animal_level == Get(energy_map, animal_energy.val, 2)
                 adopter_level == Get(lifestyle_map, adopter_lifestyle.val, 2)
                 diff == Abs(animal_level - adopter_level)
             IN  IF diff = 0 THEN Ok(100)
                 ELSE IF diff = 1 THEN Ok(70)
                 ELSE Ok(40)

\* every adopter who is not 'experienced' handled as a beginner
ScoreExperienceStrict(animal, adopter) ==
    LET needs == GetLower(animal, "special_needs", s_empty)
        adopter_experience == GetLower(adopter, "experience_level", s_beginner)
    IN  IF needs.exc # "none" THEN needs
        ELSE IF adopter_experience.exc # "none" THEN adopter_experience
        ELSE IF adopter_experience.val = s_experienced THEN Ok(100)
        ELSE IF needs.val = s_yes THEN Ok(40)
        ELSE Ok(90)

ScoreExperience(animal, adopter) ==
    LET needs == GetLower(animal, "special_needs", s_empty)
        adopter_experience == GetLower(adopter, "experience_level", s_beginner)
    IN  IF needs.exc # "none" THEN needs
        ELSE IF adopter_experience.exc # "none" THEN adopter_experience
        ELSE LET animal_needs_training == (needs.val = s_yes)
             IN  IF animal_needs_training /\ adopter_experience.val = s_experienced
                 THEN Ok(100)
                 ELSE IF animal_needs_training /\ adopter_experience.val = s_beginner
                 THEN Ok(40)
                 ELSE IF ~animal_needs_training /\ adopter_experience.val = s_beginner
                 THEN Ok(90)
                 ELSE Ok(100)

large_breeds == <<s_retriever, s_shepherd, s_labrador, s_pitbull>>
small_breeds == <<s_cat, s_tabby, s_persian, s_beagle>>

\* the keyword test without breed.lower()
EstimateSizeCaseSensitive(breed) ==
    IF breed = NoneVal THEN Raise("AttributeError")
    ELSE IF \E i \in 1..Len(large_breeds) : Contains(large_breeds[i], breed)
         THEN Ok(s_large)
         ELSE IF \E i \in 1..Len(small_breeds) : Contains(small_breeds[i], breed)
         THEN Ok(s_small)
         ELSE Ok(s_medium)

EstimateSize(breed) ==
    IF breed = NoneVal THEN Raise("AttributeError")
    ELSE LET breed_lower == Lower(breed)
         IN  IF \E i \in 1..Len(large_breeds) : Contains(large_breeds[i], breed_lower)
             THEN Ok(s_large)
             ELSE IF \E i \in 1..Len(small_breeds) : Contains(small_breeds[i], breed_lower)
             THEN Ok(s_small)
             ELSE Ok(s_medium)

ScoreHome(animal, adopter) ==
    LET animal_size == EstimateSize(Get(animal, "breed", s_empty))
        home_type == GetLower(adopter, "home_type", s_apartment)
    IN  IF animal_size.exc # "none" THEN animal_size
        ELSE IF home_type.exc # "none" THEN home_type
        ELSE IF home_type.val = s_house
             THEN (IF animal_size.val = s_large THEN Ok(100) ELSE Ok(90))
             ELSE (IF animal_size.val = s_large THEN Ok(40) ELSE Ok(85))

\* the second penalty written as elif: at most one penalty applies
ScoreBehaviorExclusive(animal, adopter) ==
    LET hk == GetLower(adopter, "has_kids", s_no)
        hp == GetLower(adopter, "has_other_pets", s_no)
        gk == GetLower(animal, "good_with_kids", s_no)
        gp == GetLower(animal, "good_with_dogs", s_no)
    IN  IF hk.exc # "none" THEN hk
        ELSE IF hp.exc # "none" THEN hp
        ELSE IF gk.exc # "none" THEN gk
        ELSE IF gp.exc # "none" THEN gp
        ELSE IF hk.val = s_yes /\ gk.val # s_yes THEN Ok(Max2(100 - 40, 10))
        ELSE IF hp.val = s_yes /\ gp.val # s_yes THEN Ok(Max2(100 - 30, 10))
        ELSE Ok(100)

\* penalties of 60 and 40 in place of 40 and 30: both together reach the floor
ScoreBehaviorHarsh(animal, adopter) ==
    LET hk == GetLower(adopter, "has_kids", s_no)
        hp == GetLower(adopter, "has_other_pets", s_no)
        gk == GetLower(animal, "good_with_kids", s_no)
        gp == GetLower(animal, "good_with_dogs", s_no)
    IN  IF hk.exc # "none" THEN hk
        ELSE IF hp.exc # "none" THEN hp
        ELSE IF gk.exc # "none" THEN gk
        ELSE IF gp.exc # "none" THEN gp
        ELSE LET score0 == 100
                 score1 == IF hk.val = s_yes /\ gk.val # s_yes THEN score0 - 60 ELSE score0
                 score2 == IF hp.val = s_yes /\ gp.val # s_yes THEN score1 - 40 ELSE score1
             IN  Ok(Max2(score2, 10))

ScoreBehavior(animal, adopter) ==
    LET hk == GetLower(adopter, "has_kids", s_no)
        hp == GetLower(adopter, "has_other_pets", s_no)
        gk == GetLower(animal, "good_with_kids", s_no)
        gp == GetLower(animal, "good_with_dogs", s_no)
    IN  IF hk.exc # "none" THEN hk
        ELSE IF hp.exc # "none" THEN hp
        ELSE IF gk.exc # "none" THEN gk
        ELSE IF gp.exc # "none" THEN gp
        ELSE LET has_kids == (hk.val = s_yes)
                 has_other_pets == (hp.val = s_yes)
                 animal_good_kids == (gk.val = s_yes)
                 animal_good_pets == (gp.val = s_yes)
                 score0 == 100
                 score1 == IF has_kids /\ ~animal_good_kids THEN score0 - 40 ELSE score0
                 score2 == IF has_other_pets /\ ~animal_good_pets THEN score1 - 30 ELSE score1
             IN  Ok(Max2(score2, 10))

\* the last branch returning 60: an unrecognised commitment taken as medium
ScoreSpecialNeedsLenient(animal, adopter) ==
    LET needs == GetLower(animal, "special_needs", s_no)
        commitment == GetLower(adopter, "commitment_level", s_medium)
    IN  IF needs.exc # "none" THEN needs
        ELSE IF commitment.exc # "none" THEN commitment
        ELSE IF needs.val # s_yes THEN Ok(100)
        ELSE IF commitment.val = s_high THEN Ok(95)
        ELSE Ok(60)

ScoreSpecialNeeds(animal, adopter) ==
    LET needs == GetLower(animal, "special_needs", s_no)
        commitment == GetLower(adopter, "commitment_level", s_medium)
    IN  IF needs.exc # "none" THEN needs
        ELSE IF commitment.exc # "none" THEN commitment
        ELSE IF needs.val # s_yes THEN Ok(100)
        ELSE IF commitment.val = s_high THEN Ok(95)
        ELSE IF commitment.val = s_medium THEN Ok(60)
        ELSE Ok(30)

(***************************************************************************)
(* State.                                                                  *)
(***************************************************************************)
VARIABLES
    weights,        \* CompatibilityScorer.weights
    animals,        \* DataLoader.animals, the rows of the animal file
    adopters,       \* DataLoader.adopters, the rows of the adopter file
    sessions,       \* MemoryStore.sessions in insertion order
    match_history,  \* MemoryStore.match_history
    storage,        \* the document in MemoryStore.storage_file
    clock,          \* what datetime.now() returns
    next_uuid,      \* the next value uuid.uuid4() yields
    returned,       \* outcome of the last operation
    calls,          \* calculate_compatibility calls made by the last operation
    probe           \* one earlier calculate_compatibility call and its outcome

vars == <<weights, animals, adopters, sessions, match_history, storage,
          clock, next_uuid, returned, calls, probe>>

\* round(x) in place of int(x)
IntCastRound(h) == (h + 50) \div 100

\* int(x) of a float held in hundredths: truncation toward zero
IntCast(h) == IF h >= 0 THEN h \div 100 ELSE -((-h) \div 100)

\* sum(scores[key] * self.weights[key] for key in scores.keys()), in hundredths
RECURSIVE WeightedSum(_, _, _)
WeightedSum(scores, w, i) ==
    IF i > Len(ScoreKeys) THEN 0
    ELSE scores[ScoreKeys[i]] * w[ScoreKeys[i]] + WeightedSum(scores, w, i + 1)

\* str() of a value inside an f-string
Fmt(v) == IF v = NoneVal THEN s_None ELSE v

\* a reasoning text that carries the time of the call
GenerateReasoningStamped(animal, adopter, scores) ==
    LET animal_name == Get(animal, "name", s_Unknown)
        adopter_name == Get(adopter, "name", s_Unknown)
    IN  << "Match Analysis: ", Fmt(animal_name), " <-> ", Fmt(adopter_name),
           "at ", clock,
           "- Lifestyle Compatibility: ", scores["lifestyle_match"], "/100",
           "- Experience Match: ", scores["experience_match"], "/100",
           "- Home Fit: ", scores["home_fit"], "/100",
           "- Behavioral Compatibility: ", scores["behavioral_fit"], "/100",
           "- Special Needs Capability: ", scores["special_needs"], "/100" >>

GenerateReasoning(animal, adopter, scores) ==
    LET animal_name == Get(animal, "name", s_Unknown)
        adopter_name == Get(adopter, "name", s_Unknown)
    IN  << "Match Analysis: ", Fmt(animal_name), " <-> ", Fmt(adopter_name),
           "- Lifestyle Compatibility: ", scores["lifestyle_match"], "/100",
           "- Experience Match: ", scores["experience_match"], "/100",
           "- Home Fit: ", scores["home_fit"], "/100",
           "- Behavioral Compatibility: ", scores["behavioral_fit"], "/100",
           "- Special Needs Capability: ", scores["special_needs"], "/100" >>

\* the outcome of calculate_compatibility: the pair (score, reasoning), with
\* the local dict `scores` kept beside it, or the exception a sub-scorer raised
CalculateCompatibility(animal, adopter) ==
    LET l == ScoreLifestyle(animal, adopter)
        e == ScoreExperience(animal, adopter)
        h == ScoreHome(animal, adopter)
        b == ScoreBehavior(animal, adopter)
        n == ScoreSpecialNeeds(animal, adopter)
    IN  IF l.exc # "none" THEN [exc |-> l.exc]
        ELSE IF e.exc # "none" THEN [exc |-> e.exc]
        ELSE IF h.exc # "none" THEN [exc |-> h.exc]
        ELSE IF b.exc # "none" THEN [exc |-> b.exc]
        ELSE IF n.exc # "none" THEN [exc |-> n.exc]
        ELSE LET scores == [k \in {ScoreKeys[i] : i \in 1..Len(ScoreKeys)} |->
                               CASE k = "lifestyle_match" -> l.val
                                 [] k = "experience_match" -> e.val
                                 [] k = "home_fit" -> h.val
                                 [] k = "behavioral_fit" -> b.val
                                 [] k = "special_needs" -> n.val]
                 total_score == WeightedSum(scores, weights, 1)
             IN  [exc |-> "none",
                  score |-> IntCast(total_score),
                  reasoning |-> GenerateReasoning(animal, adopter, scores),
                  scores |-> scores]

(***************************************************************************)
(* Input records.  A record is the dict csv.DictReader builds from one     *)
(* row: every value a string, None for the cells a short row lacks, and a  *)
(* key absent when the file has no such column.                            *)
(***************************************************************************)
s_Busy == <<"B","u","s","y">>
s_hyper == <<"h","y","p","e","r">>
s_nomad == <<"n","o","m","a","d">>
s_condo == <<"c","o","n","d","o">>
s_other == <<"o","t","h","e","r">>
s_GoldenRetriever == <<"G","o","l","d","e","n"," ","R","e","t","r","i","e","v","e","r">>
s_tabbycat == <<"t","a","b","b","y"," ","c","a","t">>
s_Poodle == <<"P","o","o","d","l","e">>
s_Max == <<"M","a","x">>
s_John == <<"J","o","h","n">>
s_1 == <<"1">>

AnimalFields == {"energy_level", "breed", "good_with_kids", "good_with_dogs",
                 "special_needs"}
AdopterFields == {"lifestyle", "home_type", "has_kids", "has_other_pets",
                  "experience_level", "commitment_level"}

\* values tried for each field of an animal
AnimalDom ==
    [animal_id : {s_1}, name : {s_Max},
     energy_level : {s_low, s_medium, s_high, s_hyper},
     breed : {s_GoldenRetriever, s_tabbycat, s_Poodle},
     good_with_kids : {s_yes, s_no},
     good_with_dogs : {s_yes, s_no},
     special_needs : {s_yes, s_no}]

\* values tried for each field of an adopter
AdopterDom ==
    [adopter_id : {s_1}, name : {s_John},
     lifestyle : {s_Busy, s_moderate, s_active, s_nomad},
     home_type : {s_house, s_apartment, s_condo},
     has_kids : {s_yes, s_no},
     has_other_pets : {s_yes, s_no},
     experience_level : {s_beginner, s_experienced, s_other},
     commitment_level : {s_high, s_medium, s_low}]

\* the record rec with the fields of `gone` removed and those of `nulled` None
Degrade(rec, gone, nulled) ==
    [k \in (DOMAIN rec) \ gone |-> IF k \in nulled THEN NoneVal ELSE rec[k]]

NoResult == [op |-> "none", exc |-> "nocall"]
NoProbe == [set |-> FALSE]
NoFile == [exists |-> FALSE]

\* a store of one animal and one adopter, over every combination of the
\* field values above with at most MaxOdd fields None or absent
InitScore ==
    \E a \in AnimalDom, d \in AdopterDom :
    \E odd \in {o \in SUBSET (AnimalFields \cup AdopterFields) : Cardinality(o) <= MaxOdd} :
    \E nulled \in SUBSET odd :
        /\ animals = << Degrade(a, odd \ nulled, nulled) >>
        /\ adopters = << Degrade(d, odd \ nulled, nulled) >>
        /\ weights = InitWeights
        /\ sessions = << >>
        /\ match_history = << >>
        /\ storage = NoFile
        /\ clock = 0
        /\ next_uuid = 1
        /\ returned = NoResult
        /\ calls = << >>
        /\ probe = NoProbe

\* scorer.calculate_compatibility(animal, adopter) on the loaded pair, as
\* test_tools.py calls it
Calculate ==
    /\ returned = NoResult
    /\ LET out == CalculateCompatibility(animals[1], adopters[1])
       IN  returned' = [op |-> "calculate_compatibility", exc |-> out.exc,
                        val |-> out]
    /\ UNCHANGED <<weights, animals, adopters, sessions, match_history, storage,
                   clock, next_uuid, calls, probe>>

NextScore == Calculate

SpecScore == InitScore /\ [][NextScore]_vars

(***************************************************************************)
(* The sub-score tables: one pair per combination of the values each       *)
(* table reads, a field left out of the record where the value is Absent.  *)
(***************************************************************************)
Absent == <<"absent">>
s_High == <<"H","i","g","h">>
s_Yes == <<"Y","e","s">>
s_House == <<"H","o","u","s","e">>
s_GermanShepherd == <<"G","e","r","m","a","n"," ","S","h","e","p","h","e","r","d">>
s_LabradorBeagle == <<"L","a","b","r","a","d","o","r"," ","B","e","a","g","l","e"," ","m","i","x">>
s_PitBull == <<"P","i","t"," ","B","u","l","l">>
s_SiameseCat == <<"S","i","a","m","e","s","e"," ","C","a","t">>
s_Tabby == <<"T","a","b","b","y">>
s_Persian == <<"P","e","r","s","i","a","n">>
s_Beagle == <<"B","e","a","g","l","e">>

TableAnimals ==
    [animal_id : {s_1}, name : {s_Max},
     energy_level : {s_low, s_medium, s_high, s_High, s_hyper, Absent},
     breed : {s_GoldenRetriever, s_GermanShepherd, s_LabradorBeagle, s_PitBull,
              s_SiameseCat, s_Tabby, s_Persian, s_Beagle, s_Poodle, Absent},
     good_with_kids : {s_yes, s_no, Absent},
     good_with_dogs : {s_Yes, s_no},
     special_needs : {s_no}]

TableAdopters ==
    [adopter_id : {s_1}, name : {s_John},
     lifestyle : {s_quiet, s_relaxed, s_busy, s_Busy, s_moderate, s_family,
                  s_active, s_outdoor, s_nomad, Absent},
     home_type : {s_house, s_House, s_apartment, s_condo, Absent},
     has_kids : {s_yes, s_no, Absent},
     has_other_pets : {s_Yes, s_no},
     experience_level : {s_experienced},
     commitment_level : {s_high}]

\* the record without the fields whose value is Absent
Present(rec) == Degrade(rec, {k \in DOMAIN rec : rec[k] = Absent}, {})

InitTable ==
    \E a \in TableAnimals, d \in TableAdopters :
        /\ animals = << Present(a) >>
        /\ adopters = << Present(d) >>
        /\ weights = InitWeights
        /\ sessions = << >>
        /\ match_history = << >>
        /\ storage = NoFile
        /\ clock = 0
        /\ next_uuid = 1
        /\ returned = NoResult
        /\ calls = << >>
        /\ probe = NoProbe

SpecTable == InitTable /\ [][NextScore]_vars

(***************************************************************************)
(* The special-needs sub-score: one pair per combination of the values     *)
(* _score_special_needs and _score_experience read.                        *)
(***************************************************************************)
s_maybe == <<"m","a","y","b","e">>
s_Low == <<"L","o","w">>

NeedsAnimals ==
    [animal_id : {s_1}, name : {s_Max},
     energy_level : {s_low, s_high},
     breed : {s_GoldenRetriever},
     good_with_kids : {s_yes},
     good_with_dogs : {s_yes},
     special_needs : {s_yes, s_Yes, s_no, s_maybe, s_empty, Absent}]

NeedsAdopters ==
    [adopter_id : {s_1}, name : {s_John},
     lifestyle : {s_active},
     home_type : {s_house},
     has_kids : {s_no},
     has_other_pets : {s_no},
     experience_level : {s_beginner, s_experienced},
     commitment_level : {s_high, s_High, s_medium, s_low, s_Low, s_other,
                         s_empty, Absent}]

InitNeeds ==
    \E a \in NeedsAnimals, d \in NeedsAdopters :
        /\ animals = << Present(a) >>
        /\ adopters = << Present(d) >>
        /\ weights = InitWeights
        /\ sessions = << >>
        /\ match_history = << >>
        /\ storage = NoFile
        /\ clock = 0
        /\ next_uuid = 1
        /\ returned = NoResult
        /\ calls = << >>
        /\ probe = NoProbe

SpecNeeds == InitNeeds /\ [][NextScore]_vars

(***************************************************************************)
(* DataLoader                                                              *)
(***************************************************************************)
s_Luna == <<"L","u","n","a">>
s_Stub == <<"S","t","u","b">>
s_Mary == <<"M","a","r","y">>
s_2 == <<"2">>
s_3 == <<"3">>
s_4 == <<"4">>
s_5 == <<"5">>
s_calm == <<"c","a","l","m">>

\* the columns of the two files that the program reads, in the order
\* format_animal_for_agent and format_adopter_for_agent list them
AnimalHeader == <<"animal_id", "name", "breed", "energy_level", "good_with_kids",
                  "good_with_dogs", "special_needs">>
AdopterHeader == <<"adopter_id", "name", "home_type", "has_kids", "has_other_pets",
                   "lifestyle", "commitment_level", "experience_level",
                   "preferences">>

\* one row of csv.DictReader: the cells under the header's names, None
\* (restval) for the columns a short row does not reach
DictRow(header, cells) ==
    [k \in {header[i] : i \in 1..Len(header)} |->
        LET i == CHOOSE j \in 1..Len(header) : header[j] = k
        IN  IF i <= Len(cells) THEN cells[i] ELSE NoneVal]

\* the decimal text of a row number
IdStr(i) == CASE i = 1 -> s_1 [] i = 2 -> s_2 [] i = 3 -> s_3 [] i = 4 -> s_4
              [] OTHER -> s_5

\* rows an animal file may hold (after the id cell); the last one is short
AnimalRows ==
    { <<s_Max, s_GoldenRetriever, s_high, s_yes, s_yes, s_no>>,
      <<s_Luna, s_tabbycat, s_low, s_no, s_no, s_yes>>,
      <<s_Stub, s_Poodle>> }

\* rows an adopter file may hold (after the id cell)
AdopterRows ==
    { <<s_John, s_house, s_yes, s_yes, s_active, s_medium, s_beginner, s_calm>>,
      <<s_Mary, s_apartment, s_yes, s_yes, s_busy, s_low, s_beginner, s_calm>> }

\* _load_csv: the rows of a file as dicts, the i-th row carrying id i
LoadCsv(header, rows) ==
    [i \in 1..Len(rows) |-> DictRow(header, <<IdStr(i)>> \o rows[i])]

\* get_animal / get_adopter: the first record with that id, else None
Lookup(records, key, id) ==
    IF \E i \in 1..Len(records) : records[i][key] = id
    THEN records[CHOOSE i \in 1..Len(records) :
                    /\ records[i][key] = id
                    /\ \A j \in 1..(i - 1) : records[j][key] # id]
    ELSE NoneVal

GetAnimal(id) == Lookup(animals, "animal_id", id)
GetAdopter(id) == Lookup(adopters, "adopter_id", id)

(***************************************************************************)
(* MatchingAgent                                                           *)
(***************************************************************************)
\* the loop of find_matches over get_all_animals(): the matches appended and
\* the calculate_compatibility calls made, stopping at the first exception
RECURSIVE ScoreAll(_, _, _, _)
ScoreAll(adopter, i, matches, made) ==
    IF i > Len(animals) THEN [exc |-> "none", val |-> matches, calls |-> made]
    ELSE LET animal == animals[i]
             out == CalculateCompatibility(animal, adopter)
             call == [animal |-> animal, adopter |-> adopter, out |-> out]
         IN  IF out.exc # "none"
             THEN [exc |-> out.exc, val |-> << >>, calls |-> Append(made, call)]
             ELSE ScoreAll(adopter, i + 1,
                           Append(matches,
                                  [animal_id |-> animal["animal_id"],
                                   animal_name |-> animal["name"],
                                   adopter_id |-> adopter["adopter_id"],
                                   adopter_name |-> adopter["name"],
                                   score |-> out.score,
                                   reasoning |-> out.reasoning]),
                           Append(made, call))

\* an insertion that puts m in front of the elements of equal score
InsertDescUnstable(sorted, m) ==
    LET k == Cardinality({j \in 1..Len(sorted) : sorted[j].score > m.score})
    IN  SubSeq(sorted, 1, k) \o <<m>> \o SubSeq(sorted, k + 1, Len(sorted))

\* one insertion of list.sort(key=score, reverse=True): m goes behind every
\* element whose score is not smaller, so equal scores keep their order
InsertDesc(sorted, m) ==
    LET k == Cardinality({j \in 1..Len(sorted) : sorted[j].score >= m.score})
    IN  SubSeq(sorted, 1, k) \o <<m>> \o SubSeq(sorted, k + 1, Len(sorted))

\* the one element of a singleton set: {e : x \in {v}} binds x to the value of
\* v, so a local that is read many times is evaluated once
Only(S) == CHOOSE v \in S : TRUE

RECURSIVE SortDesc(_, _, _)
SortDesc(matches, i, sorted) ==
    IF i > Len(matches) THEN sorted
    ELSE Only({SortDesc(matches, i + 1, next) :
                   next \in {InsertDesc(sorted, matches[i])}})

\* the slice s[:n]
Slice(s, n) ==
    IF n >= 0 THEN SubSeq(s, 1, IF n < Len(s) THEN n ELSE Len(s))
    ELSE SubSeq(s, 1, Len(s) + n)

\* find_matches(adopter_id, top_n)
FindMatchesOp(adopter_id, top_n) ==
    LET adopter == GetAdopter(adopter_id)
    IN  IF adopter = NoneVal
        THEN [exc |-> "none", val |-> << >>, calls |-> << >>]
        ELSE Only({IF all.exc # "none" THEN all
                   ELSE [exc |-> "none",
                         val |-> Slice(SortDesc(all.val, 1, << >>), top_n),
                         calls |-> all.calls] :
                       all \in {ScoreAll(adopter, 1, << >>, << >>)}})

GetRecommendation(score) ==
    IF score >= 80 THEN "STRONG MATCH - Highly recommended"
    ELSE IF score >= 60 THEN "GOOD MATCH - Recommended with notes"
    ELSE IF score >= 40 THEN "POSSIBLE MATCH - Requires careful consideration"
    ELSE "NOT RECOMMENDED - Compatibility concerns"

\* get_detailed_match(animal_id, adopter_id)
GetDetailedMatchOp(animal_id, adopter_id) ==
    LET animal == GetAnimal(animal_id)
        adopter == GetAdopter(adopter_id)
    IN  IF animal = NoneVal \/ adopter = NoneVal
        THEN [exc |-> "none", val |-> [error |-> "Animal or adopter not found"],
              calls |-> << >>]
        ELSE LET out == CalculateCompatibility(animal, adopter)
                 call == [animal |-> animal, adopter |-> adopter, out |-> out]
             IN  IF out.exc # "none"
                 THEN [exc |-> out.exc, val |-> << >>, calls |-> <<call>>]
                 ELSE [exc |-> "none",
                       val |-> [animal_id |-> animal_id,
                                animal_name |-> animal["name"],
                                adopter_id |-> adopter_id,
                                adopter_name |-> adopter["name"],
                                score |-> out.score,
                                reasoning |-> out.reasoning,
                                recommendation |-> GetRecommendation(out.score),
                                animal_data |-> animal,
                                adopter_data |-> adopter],
                       calls |-> <<call>>]

(***************************************************************************)
(* AdoptionSession and MemoryStore                                         *)
(***************************************************************************)
\* a datetime, and its isoformat() text
DateTime(t) == <<"datetime", t>>
IsoFormat(dt) == <<"iso", dt[2]>>

\* str(uuid.uuid4()): a text no earlier call has returned
Uuid(n) == <<"uuid", n>>

\* AdoptionMatch(...), timestamp defaulting to datetime.now()
AdoptionMatch(animal_id, adopter_id, animal_name, adopter_name, score, now, status) ==
    [animal_id |-> animal_id, adopter_id |-> adopter_id,
     animal_name |-> animal_name, adopter_name |-> adopter_name,
     score |-> score, timestamp |-> now, status |-> status, notes |-> s_empty]

MatchToDict(m) ==
    [animal_id |-> m.animal_id, adopter_id |-> m.adopter_id,
     animal_name |-> m.animal_name, adopter_name |-> m.adopter_name,
     score |-> m.score, timestamp |-> IsoFormat(m.timestamp),
     status |-> m.status, notes |-> m.notes]

\* AdoptionSession(session_id=..., adopter_id=...)
NewSession(session_id, adopter_id, now) ==
    [session_id |-> session_id, adopter_id |-> adopter_id, created_at |-> now,
     matches |-> << >>, selected_animal |-> NoneVal, adoption_date |-> NoneVal,
     feedback |-> s_empty, session_state |-> << >>]

SessionToDict(sn) ==
    [session_id |-> sn.session_id, adopter_id |-> sn.adopter_id,
     created_at |-> IsoFormat(sn.created_at),
     matches |-> [i \in 1..Len(sn.matches) |-> MatchToDict(sn.matches[i])],
     selected_animal |-> sn.selected_animal,
     adoption_date |-> IF sn.adoption_date # NoneVal
                       THEN IsoFormat(sn.adoption_date) ELSE NoneVal,
     feedback |-> sn.feedback, session_state |-> sn.session_state]

\* self.sessions[session_id] = session: a known key keeps its place
PutSession(ss, sn) ==
    IF \E i \in 1..Len(ss) : ss[i].session_id = sn.session_id
    THEN [i \in 1..Len(ss) |-> IF ss[i].session_id = sn.session_id THEN sn ELSE ss[i]]
    ELSE Append(ss, sn)

\* the document save_to_file writes
SaveToFile(ss, history, now) ==
    [exists |-> TRUE, last_saved |-> IsoFormat(now),
     sessions |-> [i \in 1..Len(ss) |-> SessionToDict(ss[i])],
     match_history |-> [i \in 1..Len(history) |-> history[i].data]]

(***************************************************************************)
(* ProfilingAgent                                                          *)
(***************************************************************************)
\* profile_adopter without the `if not adopter` test: None.get raises
ProfileAdopterUnchecked(adopter_id) ==
    LET adopter == GetAdopter(adopter_id)
    IN  IF adopter = NoneVal THEN Raise("AttributeError")
        ELSE IF \E k \in {"has_kids", "has_other_pets", "preferences"} :
                    Get(adopter, k, NoneVal) = NoneVal
        THEN Raise("AttributeError")
        ELSE Ok([type |-> "adopter", id |-> adopter_id,
                 has_kids |-> Lower(adopter["has_kids"]) = s_yes,
                 has_other_pets |-> Lower(adopter["has_other_pets"]) = s_yes,
                 raw_data |-> adopter])

\* profile_adopter: adopter.get(k) is None for an absent key, and .lower()
\* or .split() of None raises
ProfileAdopterOp(adopter_id) ==
    LET adopter == GetAdopter(adopter_id)
    IN  IF adopter = NoneVal THEN Ok([error |-> "not found"])
        ELSE IF \E k \in {"has_kids", "has_other_pets", "preferences"} :
                    Get(adopter, k, NoneVal) = NoneVal
        THEN Raise("AttributeError")
        ELSE Ok([type |-> "adopter", id |-> adopter_id,
                 has_kids |-> Lower(adopter["has_kids"]) = s_yes,
                 has_other_pets |-> Lower(adopter["has_other_pets"]) = s_yes,
                 raw_data |-> adopter])

(***************************************************************************)
(* Initial state: both files loaded, the memory store empty.               *)
(***************************************************************************)
SeqsUpTo(S, lo, hi) == UNION {[1..n -> S] : n \in lo..hi}

Init ==
    /\ \E rows \in SeqsUpTo(AnimalRows, 0, MaxAnimals) :
           animals = LoadCsv(AnimalHeader, rows)
    /\ \E rows \in SeqsUpTo(AdopterRows, 1, MaxAdopters) :
           adopters = LoadCsv(AdopterHeader, rows)
    /\ weights = InitWeights
    /\ sessions = << >>
    /\ match_history = << >>
    /\ storage = NoFile
    /\ clock = 0
    /\ next_uuid = 1
    /\ returned = NoResult
    /\ calls = << >>
    /\ probe = NoProbe

\* the ids callers pass: those of the loaded rows and one that no row has
AnimalIds == {IdStr(i) : i \in 1..(Len(animals) + 1)}
AdopterIds == {IdStr(i) : i \in 1..(Len(adopters) + 1)}
TopNs == (-1)..MaxTopN

\* the call remembered for later comparison: the one already remembered, else
\* any call the operation made
Remember(made) ==
    IF probe.set \/ made = << >> THEN probe' = probe
    ELSE \E i \in 1..Len(made) :
             probe' = [set |-> TRUE, at |-> clock, call |-> made[i]]

FindMatches ==
    \E adopter_id \in AdopterIds, top_n \in TopNs :
        \E r \in {FindMatchesOp(adopter_id, top_n)} :
            /\ returned' = [op |-> "find_matches", adopter_id |-> adopter_id,
                            top_n |-> top_n, exc |-> r.exc, val |-> r.val]
            /\ calls' = r.calls
            /\ Remember(r.calls)
            /\ UNCHANGED <<weights, animals, adopters, sessions, match_history,
                           storage, clock, next_uuid>>

GetDetailedMatch ==
    \E animal_id \in AnimalIds, adopter_id \in AdopterIds :
        \E r \in {GetDetailedMatchOp(animal_id, adopter_id)} :
            /\ returned' = [op |-> "get_detailed_match", animal_id |-> animal_id,
                            adopter_id |-> adopter_id, exc |-> r.exc, val |-> r.val]
            /\ calls' = r.calls
            /\ Remember(r.calls)
            /\ UNCHANGED <<weights, animals, adopters, sessions, match_history,
                           storage, clock, next_uuid>>

\* the top_n of process_adoption_inquiry and the default of find_matches
DefaultTopN == 3

\* the AdoptionMatch objects process_adoption_inquiry appends to the session
RecordedMatches(matches, now) ==
    [i \in 1..Len(matches) |->
        AdoptionMatch(matches[i].animal_id, matches[i].adopter_id,
                      matches[i].animal_name, matches[i].adopter_name,
                      matches[i].score, now, "recommended")]

\* process_adoption_inquiry(adopter_id): the session is created and saved
\* first; an exception of the profiler or the matcher leaves that in place
ProcessAdoptionInquiry ==
    \E adopter_id \in AdopterIds :
        /\ Len(sessions) < MaxSessions
        /\ \E profile \in {ProfileAdopterOp(adopter_id)},
              found \in {FindMatchesOp(adopter_id, DefaultTopN)} :
           LET now == DateTime(clock)
               session_id == Uuid(next_uuid)
               session == NewSession(session_id, adopter_id, now)
               created == PutSession(sessions, session)
               filled == [session EXCEPT !.matches = RecordedMatches(found.val, now)]
               final == PutSession(created, filled)
           IN  IF profile.exc # "none"
               THEN /\ sessions' = created
                    /\ storage' = SaveToFile(created, match_history, now)
                    /\ returned' = [op |-> "process_adoption_inquiry",
                                    adopter_id |-> adopter_id,
                                    exc |-> profile.exc, val |-> << >>]
                    /\ calls' = << >>
                    /\ probe' = probe
               ELSE IF found.exc # "none"
               THEN /\ sessions' = created
                    /\ storage' = SaveToFile(created, match_history, now)
                    /\ returned' = [op |-> "process_adoption_inquiry",
                                    adopter_id |-> adopter_id,
                                    exc |-> found.exc, val |-> << >>]
                    /\ calls' = found.calls
                    /\ Remember(found.calls)
               ELSE /\ sessions' = final
                    /\ storage' = SaveToFile(final, match_history, now)
                    /\ returned' =
                         [op |-> "process_adoption_inquiry",
                          adopter_id |-> adopter_id, exc |-> "none",
                          val |-> [session_id |-> session_id,
                                   adopter_id |-> adopter_id,
                                   matches_found |-> Len(found.val),
                                   top_match |-> IF found.val # << >>
                                                 THEN found.val[1] ELSE NoneVal,
                                   session_data |-> SessionToDict(filled)]]
                    /\ calls' = found.calls
                    /\ Remember(found.calls)
        /\ clock' = clock + 1
        /\ next_uuid' = next_uuid + 1
        /\ UNCHANGED <<weights, animals, adopters, match_history>>

Next == FindMatches \/ GetDetailedMatch \/ ProcessAdoptionInquiry

Spec == Init /\ [][Next]_vars

(***************************************************************************)
(* The session and history recorder: MemoryStore and the AdoptionSession   *)
(* objects it registers.  match_history is a list of dict objects; an      *)
(* entry is [ref, data], ref naming the object and data its content, so    *)
(* that two entries which are the same object change together.             *)
(***************************************************************************)
\* calls made on the recorder in one run
MaxSteps == 4
\* the session ids callers pass to create_session
MaxIds == 2
\* the dict objects callers pass to record_match
MaxObjects == 2

s_ok == <<"o","k">>
s_Bella == <<"B","e","l","l","a">>

\* d[k] = v on a dict
SetItem(d, k, v) == [x \in (DOMAIN d) \cup {k} |-> IF x = k THEN v ELSE d[x]]

\* the session registered under session_id, else None (dict.get)
SessionOf(ss, session_id) ==
    IF \E i \in 1..Len(ss) : ss[i].session_id = session_id
    THEN ss[CHOOSE i \in 1..Len(ss) : ss[i].session_id = session_id]
    ELSE NoneVal

\* a method call on the session object registered under session_id
OnSession(ss, session_id, sn) ==
    [i \in 1..Len(ss) |-> IF ss[i].session_id = session_id THEN sn ELSE ss[i]]

\* add_match that skips a match the list already holds
AddMatchDedup(sn, match) ==
    IF \E i \in 1..Len(sn.matches) : sn.matches[i] = match THEN sn
    ELSE [sn EXCEPT !.matches = Append(@, match)]

\* AdoptionSession.add_match
AddMatchOp(sn, match) == [sn EXCEPT !.matches = Append(@, match)]

\* select_animal that leaves session_state alone
SelectAnimalFieldOnly(sn, animal_id, now) ==
    [sn EXCEPT !.selected_animal = animal_id]

\* AdoptionSession.select_animal
SelectAnimalOp(sn, animal_id, now) ==
    [sn EXCEPT !.selected_animal = animal_id,
               !.session_state = SetItem(@, "selection_time", IsoFormat(now))]

\* AdoptionSession.complete_adoption
CompleteAdoptionOp(sn, now) ==
    [sn EXCEPT !.adoption_date = now,
               !.session_state = SetItem(@, "status", "completed")]

\* AdoptionSession.add_feedback
AddFeedbackOp(sn, feedback, now) ==
    [sn EXCEPT !.feedback = feedback,
               !.session_state = SetItem(@, "feedback_time", IsoFormat(now))]

\* the content of the dict object ref when the caller passes it: what an
\* earlier record_match left in it, else what the caller built
ObjectData(history, ref) ==
    IF \E i \in 1..Len(history) : history[i].ref = ref
    THEN history[CHOOSE i \in 1..Len(history) : history[i].ref = ref].data
    ELSE [animal_id |-> IdStr(ref[2]), adopter_id |-> s_1,
          animal_name |-> IF ref[2] = 1 THEN s_Max ELSE s_Bella,
          score |-> 86 - ref[2]]

\* MemoryStore.record_match: the timestamp is written into the caller's dict
\* and that same object is appended
RecordMatchOp(history, ref, now) ==
    LET stamped == SetItem(ObjectData(history, ref), "timestamp", IsoFormat(now))
    IN  Append([i \in 1..Len(history) |->
                   IF history[i].ref = ref
                   THEN [history[i] EXCEPT !.data = stamped] ELSE history[i]],
               [ref |-> ref, data |-> stamped])

(***************************************************************************)
(* Files.  A CSV file is missing, unreadable, or holds rows; the session   *)
(* file is missing, holds a document save_to_file wrote, or holds another  *)
(* text.                                                                   *)
(***************************************************************************)
Unreadable == [exists |-> TRUE, readable |-> FALSE]
CsvFile(rows) == [exists |-> TRUE, readable |-> TRUE, rows |-> rows]

\* _load_csv on a file: only FileNotFoundError is caught
LoadCsvFile(header, file) ==
    IF ~file.exists THEN Ok(<< >>)
    ELSE IF ~file.readable THEN Raise("PermissionError")
    ELSE Ok(LoadCsv(header, file.rows))

\* session files save_to_file did not write
ForeignTexts == {"{", "[]", "{}", "{\"match_history\": 5}"}
TextFile(text) == [exists |-> TRUE, text |-> text]

\* json.load: the exception, or the type of the value, the dict it holds and
\* the type of the value under 'match_history'
JsonLoad(file) ==
    IF "text" \notin DOMAIN file
    THEN [exc |-> "none", type |-> "dict", history_type |-> "list",
          val |-> [k \in {"last_saved", "sessions", "match_history"} |-> file[k]]]
    ELSE CASE file.text = "{" -> [exc |-> "JSONDecodeError"]
           [] file.text = "[]" -> [exc |-> "none", type |-> "list"]
           [] file.text = "{}" ->
                [exc |-> "none", type |-> "dict", history_type |-> "absent",
                 val |-> << >>]
           [] file.text = "{\"match_history\": 5}" ->
                [exc |-> "none", type |-> "dict", history_type |-> "int",
                 val |-> [match_history |-> 5]]

\* the dict objects json.load builds: none of them is an object a caller holds
Loaded(dicts) == [i \in 1..Len(dicts) |-> [ref |-> <<"file", i>>, data |-> dicts[i]]]

\* load_from_file that reads the sessions back as well
LoadFromFileWithSessions(file) ==
    IF ~file.exists THEN [exc |-> "none", sessions |-> << >>, match_history |-> << >>]
    ELSE LET data == JsonLoad(file)
         IN  IF data.exc = "JSONDecodeError"
             THEN [exc |-> "none", sessions |-> << >>, match_history |-> << >>]
             ELSE IF data.type # "dict" THEN [exc |-> "AttributeError"]
             ELSE IF data.history_type = "int" THEN [exc |-> "TypeError"]
             ELSE [exc |-> "none",
                   sessions |-> Get(data.val, "sessions", << >>),
                   match_history |-> Loaded(Get(data.val, "match_history", << >>))]

\* load_from_file that starts from an empty history as well
LoadFromFileFresh(file) ==
    IF ~file.exists THEN [exc |-> "none", sessions |-> << >>, match_history |-> << >>]
    ELSE LET data == JsonLoad(file)
         IN  IF data.exc = "JSONDecodeError"
             THEN [exc |-> "none", sessions |-> << >>, match_history |-> << >>]
             ELSE IF data.type # "dict" THEN [exc |-> "AttributeError"]
             ELSE IF data.history_type = "int" THEN [exc |-> "TypeError"]
             ELSE [exc |-> "none", sessions |-> << >>, match_history |-> << >>]

\* MemoryStore.__init__ with load_from_file: JSONDecodeError is caught,
\* data.get on a non-dict and len() of a non-list are not
LoadFromFile(file) ==
    IF ~file.exists THEN [exc |-> "none", sessions |-> << >>, match_history |-> << >>]
    ELSE LET data == JsonLoad(file)
         IN  IF data.exc = "JSONDecodeError"
             THEN [exc |-> "none", sessions |-> << >>, match_history |-> << >>]
             ELSE IF data.type # "dict" THEN [exc |-> "AttributeError"]
             ELSE IF data.history_type = "int" THEN [exc |-> "TypeError"]
             ELSE [exc |-> "none", sessions |-> << >>,
                   match_history |-> Loaded(Get(data.val, "match_history", << >>))]

(***************************************************************************)
(* The recorder's operations as actions.  Every call that reads the time   *)
(* advances the clock.                                                     *)
(***************************************************************************)
SessionIdsIn == {IdStr(i) : i \in 1..MaxIds}
ObjectRefs == {<<"caller", i>> : i \in 1..MaxObjects}
FeedbackTexts == {s_ok, s_calm}

\* the AdoptionMatch objects a caller holds
CallerMatches ==
    {AdoptionMatch(s_1, s_1, s_Max, s_John, 85, DateTime(0), "recommended"),
     AdoptionMatch(s_2, s_1, s_Luna, s_John, 78, DateTime(0), "recommended")}

\* the process is up: it has started, and its start did not raise
Alive ==
    /\ returned.op # "none"
    /\ returned.op \in {"start", "restart"} => returned.exc = "none"

\* memory.create_session(session_id, adopter_id)
CreateSession ==
    /\ Alive /\ clock < MaxSteps
    /\ \E session_id \in SessionIdsIn :
         LET now == DateTime(clock)
             session == NewSession(session_id, s_1, now)
             registered == PutSession(sessions, session)
         IN  /\ sessions' = registered
             /\ storage' = SaveToFile(registered, match_history, now)
             /\ returned' = [op |-> "create_session", session_id |-> session_id,
                             exc |-> "none", val |-> session]
    /\ clock' = clock + 1
    /\ UNCHANGED <<weights, animals, adopters, match_history, next_uuid, calls, probe>>

\* session.add_match(match) on a registered session
AddMatch ==
    /\ Alive /\ clock < MaxSteps
    /\ \E i \in 1..Len(sessions), match \in CallerMatches :
         /\ sessions' = OnSession(sessions, sessions[i].session_id,
                                  AddMatchOp(sessions[i], match))
         /\ returned' = [op |-> "add_match", session_id |-> sessions[i].session_id,
                         match |-> match, exc |-> "none", val |-> NoneVal]
    /\ clock' = clock + 1
    /\ UNCHANGED <<weights, animals, adopters, match_history, storage, next_uuid,
                   calls, probe>>

\* session.select_animal(animal_id)
SelectAnimal ==
    /\ Alive /\ clock < MaxSteps
    /\ \E i \in 1..Len(sessions), animal_id \in {s_1, s_2} :
         /\ sessions' = OnSession(sessions, sessions[i].session_id,
                                  SelectAnimalOp(sessions[i], animal_id, DateTime(clock)))
         /\ returned' = [op |-> "select_animal", session_id |-> sessions[i].session_id,
                         animal_id |-> animal_id, exc |-> "none", val |-> NoneVal]
    /\ clock' = clock + 1
    /\ UNCHANGED <<weights, animals, adopters, match_history, storage, next_uuid,
                   calls, probe>>

\* session.complete_adoption()
CompleteAdoption ==
    /\ Alive /\ clock < MaxSteps
    /\ \E i \in 1..Len(sessions) :
         /\ sessions' = OnSession(sessions, sessions[i].session_id,
                                  CompleteAdoptionOp(sessions[i], DateTime(clock)))
         /\ returned' = [op |-> "complete_adoption",
                         session_id |-> sessions[i].session_id,
                         exc |-> "none", val |-> NoneVal]
    /\ clock' = clock + 1
    /\ UNCHANGED <<weights, animals, adopters, match_history, storage, next_uuid,
                   calls, probe>>

\* session.add_feedback(feedback)
AddFeedback ==
    /\ Alive /\ clock < MaxSteps
    /\ \E i \in 1..Len(sessions), feedback \in FeedbackTexts :
         /\ sessions' = OnSession(sessions, sessions[i].session_id,
                                  AddFeedbackOp(sessions[i], feedback, DateTime(clock)))
         /\ returned' = [op |-> "add_feedback", session_id |-> sessions[i].session_id,
                         feedback |-> feedback, exc |-> "none", val |-> NoneVal]
    /\ clock' = clock + 1
    /\ UNCHANGED <<weights, animals, adopters, match_history, storage, next_uuid,
                   calls, probe>>

\* memory.record_match(match_data), match_data one of the caller's dicts
RecordMatch ==
    /\ Alive /\ clock < MaxSteps
    /\ \E ref \in ObjectRefs :
         \E history \in {RecordMatchOp(match_history, ref, DateTime(clock))} :
             /\ match_history' = history
             /\ storage' = SaveToFile(sessions, history, DateTime(clock))
             /\ returned' = [op |-> "record_match", ref |-> ref,
                             exc |-> "none", val |-> NoneVal]
    /\ clock' = clock + 1
    /\ UNCHANGED <<weights, animals, adopters, sessions, next_uuid, calls, probe>>

\* memory.get_session(session_id)
GetSession ==
    /\ Alive
    /\ \E session_id \in SessionIdsIn :
         returned' = [op |-> "get_session", session_id |-> session_id,
                      exc |-> "none", val |-> SessionOf(sessions, session_id)]
    /\ UNCHANGED <<weights, animals, adopters, sessions, match_history, storage,
                   clock, next_uuid, calls, probe>>

\* the process ends and a new one constructs MemoryStore over the same file
Restart ==
    /\ Alive /\ clock < MaxSteps
    /\ \E r \in {LoadFromFile(storage)} :
         /\ sessions' = IF r.exc = "none" THEN r.sessions ELSE << >>
         /\ match_history' = IF r.exc = "none" THEN r.match_history ELSE << >>
         /\ returned' = [op |-> "restart", exc |-> r.exc, val |-> NoneVal]
    /\ clock' = clock + 1
    /\ UNCHANGED <<weights, animals, adopters, storage, next_uuid, calls, probe>>

\* a running system over one animal and one adopter, no session file yet
InitStore ==
    /\ animals = LoadCsv(AnimalHeader,
                        << <<s_Max, s_GoldenRetriever, s_high, s_yes, s_yes, s_no>> >>)
    /\ adopters = LoadCsv(AdopterHeader,
                         << <<s_John, s_house, s_yes, s_yes, s_active, s_medium,
                              s_beginner, s_calm>> >>)
    /\ weights = InitWeights
    /\ sessions = << >>
    /\ match_history = << >>
    /\ storage = NoFile
    /\ clock = 0
    /\ next_uuid = 1
    /\ returned = [op |-> "start", exc |-> "none", val |-> NoneVal]
    /\ calls = << >>
    /\ probe = NoProbe

NextStore ==
    \/ CreateSession \/ AddMatch \/ SelectAnimal \/ CompleteAdoption
    \/ AddFeedback \/ RecordMatch \/ GetSession \/ Restart

SpecStore == InitStore /\ [][NextStore]_vars

(***************************************************************************)
(* Startup: AdoptionMatchingSystem.__init__ over the files it finds.       *)
(***************************************************************************)
\* the record files a start may find: none, an unreadable one, one per row
CsvFiles(rows) == {NoFile, Unreadable} \cup {CsvFile(<<r>>) : r \in rows}

\* the session files a start may find
SessionFiles == {NoFile} \cup {TextFile(t) : t \in ForeignTexts}

\* DataLoader(animal_file, adopter_file), then MemoryStore()
Start ==
    /\ returned = NoResult
    /\ \E animal_file \in CsvFiles(AnimalRows), adopter_file \in CsvFiles(AdopterRows) :
       \E a \in {LoadCsvFile(AnimalHeader, animal_file)},
          d \in {LoadCsvFile(AdopterHeader, adopter_file)},
          r \in {LoadFromFile(storage)} :
         LET exc == IF a.exc # "none" THEN a.exc
                    ELSE IF d.exc # "none" THEN d.exc ELSE r.exc
         IN  /\ animals' = IF exc = "none" THEN a.val ELSE << >>
             /\ adopters' = IF exc = "none" THEN d.val ELSE << >>
             /\ sessions' = IF exc = "none" THEN r.sessions ELSE << >>
             /\ match_history' = IF exc = "none" THEN r.match_history ELSE << >>
             /\ returned' = [op |-> "start", animal_file |-> animal_file,
                             adopter_file |-> adopter_file, exc |-> exc,
                             val |-> NoneVal]
    /\ UNCHANGED <<weights, storage, clock, next_uuid, calls, probe>>

\* before the start: nothing loaded, any session file on disk
InitStart ==
    /\ animals = << >>
    /\ adopters = << >>
    /\ weights = InitWeights
    /\ sessions = << >>
    /\ match_history = << >>
    /\ storage \in SessionFiles
    /\ clock = 0
    /\ next_uuid = 1
    /\ returned = NoResult
    /\ calls = << >>
    /\ probe = NoProbe

NextStart == Start \/ CreateSession \/ RecordMatch \/ GetSession

SpecStart == InitStart /\ [][NextStart]_vars

(***************************************************************************)
(* Properties of the scorer, checked under SpecScore.                      *)
(***************************************************************************)
\* the pair SpecScore scores, and whether a call has returned a score
TheAnimal == animals[1]
TheAdopter == adopters[1]
Scored == returned.op = "calculate_compatibility" /\ returned.exc = "none"

\* the field is present, not None, and reads 'yes' in any letter case
IsYes(d, k) == k \in DOMAIN d /\ d[k] # NoneVal /\ Lower(d[k]) = s_yes

\* the field is present and holds exactly v
Holds(d, k, v) == k \in DOMAIN d /\ d[k] = v

\* C1: whatever recognised or unrecognised values the two records hold, a
\* total score returned by calculate_compatibility is an integer in 0..100
C1_TotalInRange == Scored => returned.val.score \in 0..100

\* a score of 100 returned for a pair with an unrecognised energy_level and
\* an unrecognised lifestyle
C1_Witness ==
    /\ Scored
    /\ Holds(TheAnimal, "energy_level", s_hyper)
    /\ Holds(TheAdopter, "lifestyle", s_nomad)
    /\ returned.val.score = 100

\* C2: the total is the weighted sum of the five sub-scores, weights 0.30,
\* 0.20, 0.20, 0.20, 0.10, truncated to an integer
C2_TruncatedWeightedSum ==
    Scored =>
        LET sc == returned.val.scores
        IN  returned.val.score =
                (30 * sc["lifestyle_match"] + 20 * sc["experience_match"]
                 + 20 * sc["home_fit"] + 20 * sc["behavioral_fit"]
                 + 10 * sc["special_needs"]) \div 100

\* a returned total whose weighted sum has a fraction of one half or more,
\* so that truncating and rounding differ
C2_Witness ==
    /\ Scored
    /\ LET sc == returned.val.scores
       IN  (30 * sc["lifestyle_match"] + 20 * sc["experience_match"]
            + 20 * sc["home_fit"] + 20 * sc["behavioral_fit"]
            + 10 * sc["special_needs"]) % 100 >= 50

\* C4: the scorer never fails: with fields absent, empty, None or
\* unrecognised, every call returns a score in 0..100
C4_NeverFails ==
    returned.op = "calculate_compatibility" =>
        returned.exc = "none" /\ returned.val.score \in 0..100

\* the records of the worked example
ExampleAnimal ==
    /\ Holds(TheAnimal, "energy_level", s_high)
    /\ Holds(TheAnimal, "breed", s_GoldenRetriever)
    /\ Holds(TheAnimal, "good_with_kids", s_yes)
    /\ Holds(TheAnimal, "good_with_dogs", s_yes)
    /\ Holds(TheAnimal, "special_needs", s_no)
ExampleAdopter ==
    /\ Holds(TheAdopter, "lifestyle", s_active)
    /\ Holds(TheAdopter, "home_type", s_house)
    /\ Holds(TheAdopter, "has_kids", s_yes)
    /\ Holds(TheAdopter, "has_other_pets", s_yes)
    /\ Holds(TheAdopter, "experience_level", s_beginner)
    /\ Holds(TheAdopter, "commitment_level", s_medium)

\* C8 as stated: the worked example scores lifestyle 100, experience 90,
\* home 100, behavioral 100, special needs 100 and 97 in total
C8_TotalNinetySeven ==
    (ExampleAnimal /\ ExampleAdopter /\ returned.op = "calculate_compatibility") =>
        /\ returned.exc = "none"
        /\ returned.val.scores["lifestyle_match"] = 100
        /\ returned.val.scores["experience_match"] = 90
        /\ returned.val.scores["home_fit"] = 100
        /\ returned.val.scores["behavioral_fit"] = 100
        /\ returned.val.scores["special_needs"] = 100
        /\ returned.val.score = 97

\* C8 amended: the worked example scores lifestyle 100, experience 90,
\* home 100, behavioral 100, special needs 100 and 98 in total
C8_TotalNinetyEight ==
    (ExampleAnimal /\ ExampleAdopter /\ returned.op = "calculate_compatibility") =>
        /\ returned.exc = "none"
        /\ returned.val.scores["lifestyle_match"] = 100
        /\ returned.val.scores["experience_match"] = 90
        /\ returned.val.scores["home_fit"] = 100
        /\ returned.val.scores["behavioral_fit"] = 100
        /\ returned.val.scores["special_needs"] = 100
        /\ returned.val.score = 98

\* the worked example has been scored
C8_Witness == ExampleAnimal /\ ExampleAdopter /\ Scored

\* the adopter has kids and other pets, the animal is good with neither
BothChecksFail ==
    /\ IsYes(TheAdopter, "has_kids")
    /\ IsYes(TheAdopter, "has_other_pets")
    /\ ~IsYes(TheAnimal, "good_with_kids")
    /\ ~IsYes(TheAnimal, "good_with_dogs")

\* C9 as stated: when both behavioral checks fail, behavioral_fit is 10
C9_FloorIsTen ==
    (Scored /\ BothChecksFail) => returned.val.scores["behavioral_fit"] = 10

\* C9 amended: when both behavioral checks fail, behavioral_fit is 30
C9_BothPenaltiesGiveThirty ==
    (Scored /\ BothChecksFail) => returned.val.scores["behavioral_fit"] = 30

\* a pair failing both behavioral checks has been scored
C9_Witness == Scored /\ BothChecksFail

\* the adopter's experience_level, lower-cased, reads v
ExperienceIs(v) ==
    /\ "experience_level" \in DOMAIN TheAdopter
    /\ TheAdopter["experience_level"] # NoneVal
    /\ Lower(TheAdopter["experience_level"]) = v

\* C10 as stated: special needs and experienced 100, special needs and
\* beginner 40, no special needs and beginner 90, every other combination
\* (experience_level 'other', unrecognised or not known at all) 100
C10_TableAsStated ==
    Scored =>
        returned.val.scores["experience_match"] =
            IF IsYes(TheAnimal, "special_needs") /\ ExperienceIs(s_experienced) THEN 100
            ELSE IF IsYes(TheAnimal, "special_needs") /\ ExperienceIs(s_beginner) THEN 40
            ELSE IF ~IsYes(TheAnimal, "special_needs") /\ ExperienceIs(s_beginner) THEN 90
            ELSE 100

\* the adopter counts as a beginner: experience_level reads 'beginner' or
\* the record has no experience_level
CountsAsBeginner ==
    ExperienceIs(s_beginner) \/ "experience_level" \notin DOMAIN TheAdopter

\* C10 amended: the same table, with an adopter record that has no
\* experience_level scored as a beginner (40 or 90)
C10_TableWithDefault ==
    Scored =>
        returned.val.scores["experience_match"] =
            IF IsYes(TheAnimal, "special_needs") /\ ExperienceIs(s_experienced) THEN 100
            ELSE IF IsYes(TheAnimal, "special_needs") /\ CountsAsBeginner THEN 40
            ELSE IF ~IsYes(TheAnimal, "special_needs") /\ CountsAsBeginner THEN 90
            ELSE 100

\* a special-needs animal scored against an adopter of experience 'other'
C10_Witness ==
    /\ Scored
    /\ IsYes(TheAnimal, "special_needs")
    /\ ExperienceIs(s_other)
    /\ returned.val.scores["experience_match"] = 100

(***************************************************************************)
(* Properties of the ranker and of an inquiry, checked under Spec.         *)
(***************************************************************************)
\* the two calls scored the same animal against the same adopter
SamePair(c1, c2) ==
    /\ c1.animal["animal_id"] = c2.animal["animal_id"]
    /\ c1.adopter["adopter_id"] = c2.adopter["adopter_id"]

\* C3: a pair scored once gives, whenever it is scored again and whatever
\* ran in between, the same outcome (score and reasoning text), and the two
\* records in the store are still the ones that were passed
C3_Deterministic ==
    probe.set =>
        /\ GetAnimal(probe.call.animal["animal_id"]) = probe.call.animal
        /\ GetAdopter(probe.call.adopter["adopter_id"]) = probe.call.adopter
        /\ \A i \in 1..Len(calls) :
               SamePair(calls[i], probe.call) => calls[i].out = probe.call.out

\* a pair scored before an inquiry ran and scored again, with a returned
\* score, by get_detailed_match after it
C3_Witness ==
    /\ probe.set
    /\ probe.at < clock
    /\ returned.op = "get_detailed_match"
    /\ returned.exc = "none"
    /\ Len(calls) = 1
    /\ SamePair(calls[1], probe.call)
    /\ calls[1].out.exc = "none"

\* the place of an animal id in the store's iteration order
StorePos(id) == CHOOSE i \in 1..Len(animals) : animals[i]["animal_id"] = id

\* C5: the matches find_matches returns are in non-increasing order of
\* score, and those of equal score in the order of their animals in the store
C5_SortedStable ==
    (returned.op = "find_matches" /\ returned.exc = "none") =>
        \A i, j \in 1..Len(returned.val) :
            i < j =>
                /\ returned.val[i].score >= returned.val[j].score
                /\ returned.val[i].score = returned.val[j].score =>
                       StorePos(returned.val[i].animal_id)
                           < StorePos(returned.val[j].animal_id)

\* a returned list that holds two matches of equal score behind a match
\* whose animal comes later in the store than both
C5_Witness ==
    /\ returned.op = "find_matches"
    /\ returned.exc = "none"
    /\ Len(returned.val) = 3
    /\ returned.val[2].score = returned.val[3].score
    /\ StorePos(returned.val[1].animal_id) = 3

Min2(a, b) == IF a <= b THEN a ELSE b

\* C6: for an adopter in the store and top_n >= 0, find_matches scores every
\* animal exactly once and returns the first min(top_n, N) entries of the
\* sorted list of all N matches, none left out scoring above one returned
C6_ScoresAllReturnsPrefix ==
    (/\ returned.op = "find_matches"
     /\ GetAdopter(returned.adopter_id) # NoneVal
     /\ returned.top_n >= 0) =>
        /\ returned.exc = "none"
        /\ Len(calls) = Len(animals)
        /\ \A i \in 1..Len(calls) :
               /\ calls[i].animal = animals[i]
               /\ calls[i].adopter = GetAdopter(returned.adopter_id)
        /\ Len(returned.val) = Min2(returned.top_n, Len(animals))
        /\ \A i \in 1..Len(returned.val) :
               /\ returned.val[i].score
                      = calls[StorePos(returned.val[i].animal_id)].out.score
               /\ \A j \in 1..Len(returned.val) :
                      i < j => /\ returned.val[i].score >= returned.val[j].score
                               /\ returned.val[i].animal_id # returned.val[j].animal_id
               /\ \A k \in 1..Len(calls) :
                      (\A j \in 1..Len(returned.val) :
                           returned.val[j].animal_id # animals[k]["animal_id"])
                      => calls[k].out.score <= returned.val[i].score

\* the same statement for the calls in which no score raised
C6_WhenNoScoreRaises ==
    (returned.op = "find_matches" /\ returned.exc # "none")
    \/ C6_ScoresAllReturnsPrefix

\* C7: an id that does not resolve never raises: find_matches returns the
\* empty list, get_detailed_match returns the error marker, and
\* process_adoption_inquiry returns with zero matches found
C7_NotFoundNeverRaises ==
    /\ (returned.op = "find_matches" /\ GetAdopter(returned.adopter_id) = NoneVal)
           => (returned.exc = "none" /\ returned.val = << >>)
    /\ (/\ returned.op = "get_detailed_match"
        /\ \/ GetAnimal(returned.animal_id) = NoneVal
           \/ GetAdopter(returned.adopter_id) = NoneVal)
           => (returned.exc = "none" /\ DOMAIN returned.val = {"error"})
    /\ (/\ returned.op = "process_adoption_inquiry"
        /\ GetAdopter(returned.adopter_id) = NoneVal)
           => /\ returned.exc = "none"
              /\ returned.val.matches_found = 0
              /\ returned.val.top_match = NoneVal

\* an inquiry for an adopter id that no row has, run to its end: its
\* session is in the saved document, with no match
C7_Witness ==
    /\ returned.op = "process_adoption_inquiry"
    /\ GetAdopter(returned.adopter_id) = NoneVal
    /\ returned.exc = "none"
    /\ storage.exists
    /\ Len(storage.sessions) = 1
    /\ storage.sessions[1].matches = << >>
    /\ animals # << >>

(***************************************************************************)
(* Properties of the recorder, checked under SpecStore.                    *)
(***************************************************************************)
\* what save_to_file would write of the sessions and of the history now
SessionDicts == [i \in 1..Len(sessions) |-> SessionToDict(sessions[i])]
HistoryDicts == [i \in 1..Len(match_history) |-> match_history[i].data]

\* the step is a call of the method op (every such call advances the clock)
IsCall(op) == clock' = clock + 1 /\ returned'.op = op

\* C11: right after create_session, add_match, select_animal,
\* complete_adoption, add_feedback or record_match returns, the persisted
\* document's sessions and match history equal those in memory
C11_EveryMutationPersists ==
    returned.op \in {"create_session", "add_match", "select_animal",
                     "complete_adoption", "add_feedback", "record_match"}
    => /\ storage.exists
       /\ storage.sessions = SessionDicts
       /\ storage.match_history = HistoryDicts

\* the session a call was made on, before and after the step
Target(ss) == SessionOf(ss, returned'.session_id)

\* C12 as stated: select_animal, complete_adoption and add_feedback each
\* change one field of the session (selected_animal, adoption_date, feedback)
\* and nothing else of it, the session_state map included
C12_SetsExactlyOneField ==
    [][/\ IsCall("select_animal") =>
            Target(sessions') =
                [Target(sessions) EXCEPT !.selected_animal = returned'.animal_id]
       /\ IsCall("complete_adoption") =>
            Target(sessions') =
                [Target(sessions) EXCEPT !.adoption_date = DateTime(clock)]
       /\ IsCall("add_feedback") =>
            Target(sessions') =
                [Target(sessions) EXCEPT !.feedback = returned'.feedback]]_vars

\* the session with field set to value and session_state[key] written
FieldAndStamp(sn, field, value, key, after) ==
    /\ key \in DOMAIN after.session_state
    /\ after = [sn EXCEPT ![field] = value,
                          !.session_state = SetItem(@, key, after.session_state[key])]

\* C12 amended: each of the three sets its field to the value passed (the
\* time of the call for complete_adoption) and writes one key of
\* session_state (selection_time, status, feedback_time); every other field,
\* every other key and every other session stay as they were
C12_SetsFieldAndStateKey ==
    [][/\ IsCall("select_animal") =>
            FieldAndStamp(Target(sessions), "selected_animal", returned'.animal_id,
                          "selection_time", Target(sessions'))
       /\ IsCall("complete_adoption") =>
            FieldAndStamp(Target(sessions), "adoption_date", DateTime(clock),
                          "status", Target(sessions'))
       /\ IsCall("add_feedback") =>
            FieldAndStamp(Target(sessions), "feedback", returned'.feedback,
                          "feedback_time", Target(sessions'))
       /\ (IsCall("select_animal") \/ IsCall("complete_adoption")
             \/ IsCall("add_feedback")) =>
            /\ Len(sessions') = Len(sessions)
            /\ \A i \in 1..Len(sessions) :
                 sessions[i].session_id # returned'.session_id
                 => sessions'[i] = sessions[i]]_vars

\* a session on which all three have been called, add_feedback last
C12_Witness ==
    /\ returned.op = "add_feedback"
    /\ \E i \in 1..Len(sessions) :
         /\ sessions[i].session_id = returned.session_id
         /\ sessions[i].selected_animal = s_2
         /\ sessions[i].adoption_date # NoneVal
         /\ sessions[i].feedback = s_ok
         /\ DOMAIN sessions[i].session_state =
                {"selection_time", "status", "feedback_time"}

\* C13: create_session returns a session with no matches, no selected animal
\* and no adoption date and registers it under its id; add_match puts the
\* match at the end of that session's list and leaves every other session's
\* list alone, so k calls leave k entries in call order, duplicates kept
C13_CreateEmptyAppendInOrder ==
    [][/\ IsCall("create_session") =>
            /\ Target(sessions') = returned'.val
            /\ returned'.val.session_id = returned'.session_id
            /\ returned'.val.matches = << >>
            /\ returned'.val.selected_animal = NoneVal
            /\ returned'.val.adoption_date = NoneVal
       /\ IsCall("add_match") =>
            /\ Len(sessions') = Len(sessions)
            /\ \A i \in 1..Len(sessions) :
                 sessions'[i].matches =
                     IF sessions[i].session_id = returned'.session_id
                     THEN Append(sessions[i].matches, returned'.match)
                     ELSE sessions[i].matches]_vars

\* two sessions, one holding the same match twice, the other holding none
C13_Witness ==
    /\ returned.op = "add_match"
    /\ Len(sessions) = 2
    /\ \E i, j \in 1..2 :
         /\ sessions[i].matches = <<returned.match, returned.match>>
         /\ sessions[j].matches = << >>

C17_HistoryAppendOnly ==
    [][/\ \A i \in 1..Len(match_history) :
            /\ i <= Len(match_history')
            /\ match_history'[i].data = match_history[i].data
       /\ IsCall("record_match") =>
            /\ Len(match_history') = Len(match_history) + 1
            /\ match_history'[Len(match_history')].data.timestamp =
                   IsoFormat(DateTime(clock))]_vars

(***************************************************************************)
(* Properties of the startup, checked under SpecStart.                     *)
(***************************************************************************)
\* C16: a start never raises; a missing or unreadable record file gives an
\* empty collection, and a missing or foreign session file gives an empty
\* history and no sessions
C16_LoadFailuresRecovered ==
    returned.op = "start"
    => /\ returned.exc = "none"
       /\ returned.animal_file \in {NoFile, Unreadable} => animals = << >>
       /\ returned.adopter_file \in {NoFile, Unreadable} => adopters = << >>
       /\ sessions = << >>
       /\ match_history = << >>

Field(d, k) == IF k \in DOMAIN d THEN d[k] ELSE Absent

\* the ordinal of an energy_level value
EnergyOrdinal(v) ==
    CASE v = s_low -> 1
      [] v = s_medium -> 2
      [] v \in {s_high, s_High} -> 3
      [] OTHER -> 2

\* the ordinal of a lifestyle value
LifestyleOrdinal(v) ==
    CASE v \in {s_quiet, s_relaxed, s_busy, s_Busy} -> 1
      [] v \in {s_moderate, s_family} -> 2
      [] v \in {s_active, s_outdoor} -> 3
      [] OTHER -> 2

\* C18: the lifestyle sub-score is 100, 70 or 40 as the ordinals of the
\* animal's energy_level and of the adopter's lifestyle differ by 0, 1 or 2,
\* letter case ignored, an unrecognised or absent value counting as 2
C18_LifestyleTable ==
    Scored =>
        LET diff == Abs(EnergyOrdinal(Field(TheAnimal, "energy_level"))
                        - LifestyleOrdinal(Field(TheAdopter, "lifestyle")))
        IN  returned.val.scores["lifestyle_match"] =
                CASE diff = 0 -> 100 [] diff = 1 -> 70 [] diff = 2 -> 40

\* 'High' against 'Busy': ordinals 3 and 1 out of values not in lower case
C18_Witness ==
    /\ Scored
    /\ Holds(TheAnimal, "energy_level", s_High)
    /\ Holds(TheAdopter, "lifestyle", s_Busy)
    /\ returned.val.scores["lifestyle_match"] = 40

\* the flag reads yes
Yes(d, k) == Field(d, k) \in {s_yes, s_Yes}

\* C19: the behavioral sub-score is 100, less 40 when the adopter has kids
\* and the animal is not good with kids, less 30 when the adopter has other
\* pets and the animal is not good with dogs, and at least 10; an adopter
\* with neither kids nor other pets gets 100
C19_BehaviorTable ==
    Scored =>
        LET kids == Yes(TheAdopter, "has_kids") /\ ~Yes(TheAnimal, "good_with_kids")
            pets == Yes(TheAdopter, "has_other_pets") /\ ~Yes(TheAnimal, "good_with_dogs")
            score == 100 - (IF kids THEN 40 ELSE 0) - (IF pets THEN 30 ELSE 0)
        IN  /\ returned.val.scores["behavioral_fit"] = Max2(score, 10)
            /\ (~Yes(TheAdopter, "has_kids") /\ ~Yes(TheAdopter, "has_other_pets"))
               => returned.val.scores["behavioral_fit"] = 100

\* only the pets penalty: no has_kids field, other pets, animal not good
\* with dogs
C19_Witness ==
    /\ Scored
    /\ "has_kids" \notin DOMAIN TheAdopter
    /\ Holds(TheAdopter, "has_other_pets", s_Yes)
    /\ Holds(TheAnimal, "good_with_dogs", s_no)
    /\ returned.val.scores["behavioral_fit"] = 70

\* the size of a breed text
BreedSize(v) ==
    CASE v \in {s_GoldenRetriever, s_GermanShepherd, s_LabradorBeagle, s_PitBull}
           -> "large"
      [] v \in {s_SiameseCat, s_Tabby, s_Persian, s_Beagle} -> "small"
      [] OTHER -> "medium"

\* C20: the home sub-score is 100 for a large animal and 90 otherwise in a
\* house, and 40 for a large animal and 85 otherwise in an apartment, any
\* other home or none; a breed naming a large and a small keyword is large
C20_HomeTable ==
    Scored =>
        LET large == BreedSize(Field(TheAnimal, "breed")) = "large"
            house == Field(TheAdopter, "home_type") \in {s_house, s_House}
        IN  returned.val.scores["home_fit"] =
                IF house THEN (IF large THEN 100 ELSE 90)
                ELSE (IF large THEN 40 ELSE 85)

\* 'Labrador Beagle mix', a large and a small keyword, in a condo
C20_Witness ==
    /\ Scored
    /\ Holds(TheAnimal, "breed", s_LabradorBeagle)
    /\ Holds(TheAdopter, "home_type", s_condo)
    /\ returned.val.scores["home_fit"] = 40

(***************************************************************************)
(* The special-needs sub-score, checked under SpecNeeds.                   *)
(***************************************************************************)
\* the adopter's commitment_level is present and, lower-cased, reads v
CommitmentIs(v) ==
    /\ "commitment_level" \in DOMAIN TheAdopter
    /\ Lower(TheAdopter["commitment_level"]) = v

\* C21: an animal without special needs scores 100 on special_needs whatever
\* the adopter's commitment_level; an animal with special needs scores 95
\* for commitment high, 60 for medium, and 30 for low or any other
\* commitment_level the record holds
C21_SpecialNeedsTable ==
    Scored =>
        LET got == returned.val.scores["special_needs"]
        IN  /\ ~IsYes(TheAnimal, "special_needs") => got = 100
            /\ (IsYes(TheAnimal, "special_needs")
                 /\ "commitment_level" \in DOMAIN TheAdopter) =>
                    got = IF CommitmentIs(s_high) THEN 95
                          ELSE IF CommitmentIs(s_medium) THEN 60
                          ELSE 30

\* a special-needs animal scored 30 against an adopter whose
\* commitment_level is neither high, medium nor low
C21_Witness ==
    /\ Scored
    /\ IsYes(TheAnimal, "special_needs")
    /\ Holds(TheAdopter, "commitment_level", s_other)
    /\ returned.val.scores["special_needs"] = 30

(***************************************************************************)
(* Persistence across runs, checked under SpecStore.                       *)
(***************************************************************************)
\* the process was started over an existing document and has persisted
\* nothing yet: no session is registered and every history entry is one
\* the start loaded from the document
NothingPersistedYet ==
    /\ storage.exists
    /\ sessions = << >>
    /\ \A i \in 1..Len(match_history) : match_history[i].ref[1] = "file"

C23_TotalAtLeastThirtySeven ==
    Scored =>
        LET sc == returned.val.scores
        IN  /\ sc["lifestyle_match"] >= 40
            /\ sc["experience_match"] >= 40
            /\ sc["home_fit"] >= 40
            /\ sc["special_needs"] >= 30
            /\ sc["behavioral_fit"] \in {100, 70, 60, 30}
            /\ sc["behavioral_fit"] # 10
            /\ returned.val.score >= 37

\* a pair at the minimum of all five sub-scores, returned with a total of 37
C23_Witness ==
    /\ Scored
    /\ returned.val.scores["lifestyle_match"] = 40
    /\ returned.val.scores["experience_match"] = 40
    /\ returned.val.scores["home_fit"] = 40
    /\ returned.val.scores["behavioral_fit"] = 30
    /\ returned.val.scores["special_needs"] = 30
    /\ returned.val.score = 37

====
